---- MODULE Spec2Model ----
(***************************************************************************)
(* Model of spacex_dash_app.py: a Dash dashboard over a table of launch    *)
(* records.  The module-level code loads the CSV, derives the slider       *)
(* defaults and the dropdown options and builds the layout; two callbacks, *)
(* update_pie and update_scatter, recompute the two figures when the       *)
(* controls they are bound to change.                                      *)
(*                                                                         *)
(* Representation.                                                         *)
(*  - A DataFrame is a sequence of rows; each row carries its pandas index *)
(*    label (read_csv gives 0..n-1) and the columns the code reads for the *)
(*    derived data: 'Launch Site', 'class', 'Payload Mass (kg)'.           *)
(*  - 'Payload Mass (kg)' is a float column: a payload is held in tenths   *)
(*    of a kilogram, so that fractional masses occur and int() truncates.  *)
(*  - Launch-site labels are strings; SiteOrder lists them in the order    *)
(*    Python's sorted() gives them.                                        *)
(*  - A figure is the data frame handed to plotly express plus its title.  *)
(***************************************************************************)
EXTENDS Integers, Sequences, FiniteSets, TLC

\* ------------------------------------------------------------------ bounds
MaxRows == 3

\* Site labels of the input tables, in ascending (lexicographic) order.
SiteOrder == <<"A", "B">>
Sites == {SiteOrder[i] : i \in DOMAIN SiteOrder}

\* Payload masses of the input tables, in tenths of a kilogram:
\* 1000.0 kg (a slider tick) and 12000.5 kg (fractional, above the slider).
PayloadValues == {10000, 120005}

Classes == {0, 1}

CsvRows == [site : Sites, class : Classes, payload : PayloadValues]
CsvTables == UNION {[1..n -> CsvRows] : n \in 0..MaxRows}

\* ------------------------------------------------------- program constants
ALL == "ALL"
SliderMin == 0
SliderMax == 10000
SliderStep == 1000

NotSet == 0 - 1
NoFigure == [data |-> <<>>, title |-> <<>>]

VARIABLES
    csv,            \* the file at CSV_PATH: [exists, rows]
    phase,          \* "start", "running", "exited" (SystemExit), "crashed"
    spacex_df,      \* the loaded DataFrame
    min_payload,    \* module global, kg
    max_payload,    \* module global, kg
    site_options,   \* dropdown options (their values)
    selected_site,  \* value of 'site-dropdown'
    payload_range,  \* value of 'payload-slider': <<low, high>>, kg
    pie,            \* figure of 'success-pie-chart'
    scatter,        \* figure of 'success-payload-scatter-chart'
    pending,        \* callbacks dispatched and not yet run
    trigger,        \* what dispatched them: "none", "load", a control id
    produced        \* figures returned per callback since the last dispatch

vars == <<csv, phase, spacex_df, min_payload, max_payload, site_options,
          selected_site, payload_range, pie, scatter, pending, trigger,
          produced>>

\* ----------------------------------------------------------------- helpers
Range(s) == {s[i] : i \in DOMAIN s}

RECURSIVE SumSeq(_)
SumSeq(s) == IF s = <<>> THEN 0 ELSE Head(s) + SumSeq(Tail(s))

Column(df, col) == [i \in DOMAIN df |-> df[i][col]]

\* Position of a site label in Python's string order.
Rank(s) == CHOOSE i \in DOMAIN SiteOrder : SiteOrder[i] = s

\* sorted(labels): ascending, as a list.
RECURSIVE Sorted(_)
Sorted(S) ==
    IF S = {} THEN <<>>
    ELSE LET m == CHOOSE x \in S : \A y \in S : Rank(x) <= Rank(y)
         IN <<m>> \o Sorted(S \ {m})

\* Series.unique(): the distinct values in order of first appearance.
RECURSIVE Unique(_)
Unique(s) ==
    IF s = <<>> THEN <<>>
    ELSE LET init == Unique(SubSeq(s, 1, Len(s) - 1))
             last == s[Len(s)]
         IN IF last \in Range(init) THEN init ELSE Append(init, last)

\* int(x) for a non-negative float held in tenths: truncation.
PythonInt(x) == x \div 10

\* A slider value in kg as a float comparable with the payload column.
AsFloat(kg) == kg * 10

\* ----------------------------------------------------- module-level loading
\* pd.read_csv: the rows of the file under a RangeIndex 0..n-1.
ReadCsv(rows) ==
    [i \in DOMAIN rows |->
        [index |-> i - 1, site |-> rows[i].site,
         class |-> rows[i].class, payload |-> rows[i].payload]]

SeqMin(s) == CHOOSE x \in Range(s) : \A y \in Range(s) : x <= y
SeqMax(s) == CHOOSE x \in Range(s) : \A y \in Range(s) : x >= y

MinPayload(df) == PythonInt(SeqMin(Column(df, "payload")))
MaxPayload(df) == PythonInt(SeqMax(Column(df, "payload")))

\* value=[min_payload, max_payload] of the RangeSlider
InitialSliderValueSwapped(lo, hi) == <<hi, lo>>
InitialSliderValue(lo, hi) == <<lo, hi>>

\* site_options: 'ALL' followed by the sorted distinct sites
SiteOptions(df) == <<ALL>> \o Sorted(Range(Unique(Column(df, "site"))))

\* ------------------------------------------------------------- update_pie
SiteRows(df, site) == SelectSeq(df, LAMBDA r : r.site = site)

\* groupby('Launch Site')['class'].sum().reset_index(): one row per distinct
\* site, group keys sorted ascending, value = sum of 'class' in the group.
GroupBySumUnsorted(df) ==
    LET keys == Unique(Column(df, "site"))
    IN [k \in DOMAIN keys |->
           [name |-> keys[k],
            value |-> SumSeq(Column(SiteRows(df, keys[k]), "class"))]]
GroupBySumCountsRows(df) ==
    LET keys == Sorted(Range(Column(df, "site")))
    IN [k \in DOMAIN keys |->
           [name |-> keys[k], value |-> Len(SiteRows(df, keys[k]))]]
GroupBySum(df) ==
    LET keys == Sorted(Range(Column(df, "site")))
    IN [k \in DOMAIN keys |->
           [name |-> keys[k],
            value |-> SumSeq(Column(SiteRows(df, keys[k]), "class"))]]

CountOf(s, v) == Cardinality({i \in DOMAIN s : s[i] = v})

Orderings(S) ==
    {p \in [1..Cardinality(S) -> S] : \A i, j \in DOMAIN p : i # j => p[i] # p[j]}

\* Series.value_counts(): one entry per value that occurs, with its number
\* of occurrences, most frequent first.  pandas does not fix the order of
\* values with equal counts (it differs between releases), so every order
\* with non-increasing counts is a possible result.
ValueCountsAscending(s) ==
    {[k \in DOMAIN p |-> [name |-> p[k], value |-> CountOf(s, p[k])]] :
        p \in {q \in Orderings(Range(s)) :
                 \A k \in 1..(Len(q) - 1) :
                     CountOf(s, q[k]) <= CountOf(s, q[k + 1])}}
ValueCountsOffByOne(s) ==
    {[k \in DOMAIN p |-> [name |-> p[k], value |-> CountOf(s, p[k]) - 1]] :
        p \in {q \in Orderings(Range(s)) :
                 \A k \in 1..(Len(q) - 1) :
                     CountOf(s, q[k]) >= CountOf(s, q[k + 1])}}
ValueCounts(s) ==
    {[k \in DOMAIN p |-> [name |-> p[k], value |-> CountOf(s, p[k])]] :
        p \in {q \in Orderings(Range(s)) :
                 \A k \in 1..(Len(q) - 1) :
                     CountOf(s, q[k]) >= CountOf(s, q[k + 1])}}

\* .rename(index={0: 'Failure', 1: 'Success'}); other labels are kept.
OutcomeLabel(c) == IF c = 0 THEN "Failure" ELSE IF c = 1 THEN "Success" ELSE c
RenameIndex(counts) ==
    [k \in DOMAIN counts |->
        [name |-> OutcomeLabel(counts[k].name), value |-> counts[k].value]]

\* The figures update_pie(site) can return for the loaded table.
update_pie(site) ==
    IF site = ALL
    THEN {[data |-> GroupBySum(spacex_df),
           title |-> <<"Total Successful Launches by Site">>]}
    ELSE {[data |-> RenameIndex(vc),
           title |-> <<"Launch Outcomes for ", site>>] :
            vc \in ValueCounts(Column(SiteRows(spacex_df, site), "class"))}

\* --------------------------------------------------------- update_scatter
PayloadMaskStrict(r, low, high) ==
    r.payload > AsFloat(low) /\ r.payload < AsFloat(high)
PayloadMaskNoUpper(r, low, high) == r.payload >= AsFloat(low)
PayloadMask(r, low, high) ==
    r.payload >= AsFloat(low) /\ r.payload <= AsFloat(high)

SiteMask(r, site) == site # ALL => r.site = site

ScatterTitle(site) ==
    IF site # ALL THEN <<"Payload vs. Outcome (", site, ")">>
    ELSE <<"Payload vs. Outcome (All Sites)">>

\* The figure update_scatter(site, range) returns for the loaded table.
update_scatter(site, range) ==
    LET low == range[1]
        high == range[2]
        filtered == SelectSeq(spacex_df,
                        LAMBDA r : PayloadMask(r, low, high) /\ SiteMask(r, site))
    IN [data |-> filtered, title |-> ScatterTitle(site)]

\* ---------------------------------------------------------------- bindings
\* Input(...) declarations of the two @app.callback decorators.
UpdatePieInputsWithSlider == {"site-dropdown", "payload-slider"}
UpdatePieInputs == {"site-dropdown"}
UpdateScatterInputsSliderOnly == {"payload-slider"}
UpdateScatterInputs == {"site-dropdown", "payload-slider"}

Callbacks == {"update_pie", "update_scatter"}
Inputs(cb) == IF cb = "update_pie" THEN UpdatePieInputs ELSE UpdateScatterInputs

\* A change of a control's value dispatches every callback that lists it
\* as an Input.
Dispatched(control) == {cb \in Callbacks : control \in Inputs(cb)}

NoneProduced == [cb \in Callbacks |-> 0]

\* Values the range slider can take: both handles on ticks min, min+step,
\* ..., max, low handle not above the high one.
SliderTicks ==
    {SliderMin + k * SliderStep : k \in 0..((SliderMax - SliderMin) \div SliderStep)}
\* The ticks the modelled user drags a handle to.
DraggedTicks == {SliderMin, SliderMin + SliderStep, SliderMax}

\* ------------------------------------------------------------------ state
Init ==
    /\ csv \in {[exists |-> FALSE, rows |-> <<>>]}
                \cup {[exists |-> TRUE, rows |-> t] : t \in CsvTables}
    /\ phase = "start"
    /\ spacex_df = <<>>
    /\ min_payload = NotSet
    /\ max_payload = NotSet
    /\ site_options = <<>>
    /\ selected_site = ""
    /\ payload_range = <<>>
    /\ pie = NoFigure
    /\ scatter = NoFigure
    /\ pending = {}
    /\ trigger = "none"
    /\ produced = NoneProduced

\* Module level, lines 21-96: read the CSV (SystemExit when the file is
\* missing), derive the slider defaults (int(nan) raises on an empty table),
\* build the options and the layout.  Serving the page then runs every
\* callback once with the layout's values.
LoadDatasetSwallowMissing ==
    /\ phase = "start"
    /\ LET df == ReadCsv(csv.rows) IN
       IF df = <<>>
       THEN /\ phase' = "running"
            /\ spacex_df' = df
            /\ min_payload' = SliderMin
            /\ max_payload' = SliderMax
            /\ site_options' = <<ALL>>
            /\ selected_site' = ALL
            /\ payload_range' = <<SliderMin, SliderMax>>
            /\ pending' = Callbacks
            /\ trigger' = "load"
            /\ UNCHANGED <<csv, pie, scatter, produced>>
       ELSE /\ phase' = "running"
            /\ spacex_df' = df
            /\ min_payload' = MinPayload(df)
            /\ max_payload' = MaxPayload(df)
            /\ site_options' = SiteOptions(df)
            /\ selected_site' = ALL
            /\ payload_range' = InitialSliderValue(MinPayload(df), MaxPayload(df))
            /\ pending' = Callbacks
            /\ trigger' = "load"
            /\ UNCHANGED <<csv, pie, scatter, produced>>
LoadDataset ==
    /\ phase = "start"
    /\ \/ /\ ~csv.exists
          /\ phase' = "exited"
          /\ UNCHANGED <<csv, spacex_df, min_payload, max_payload, site_options,
                         selected_site, payload_range, pie, scatter, pending,
                         trigger, produced>>
       \/ /\ csv.exists
          /\ csv.rows = <<>>
          /\ phase' = "crashed"
          /\ spacex_df' = ReadCsv(csv.rows)
          /\ UNCHANGED <<csv, min_payload, max_payload, site_options,
                         selected_site, payload_range, pie, scatter, pending,
                         trigger, produced>>
       \/ /\ csv.exists
          /\ csv.rows # <<>>
          /\ LET df == ReadCsv(csv.rows) IN
             /\ phase' = "running"
             /\ spacex_df' = df
             /\ min_payload' = MinPayload(df)
             /\ max_payload' = MaxPayload(df)
             /\ site_options' = SiteOptions(df)
             /\ selected_site' = ALL
             /\ payload_range' = InitialSliderValue(MinPayload(df), MaxPayload(df))
             /\ pending' = Callbacks
             /\ trigger' = "load"
          /\ UNCHANGED <<csv, pie, scatter, produced>>

Idle == phase = "running" /\ pending = {}

\* The user picks another option of 'site-dropdown' (clearable=False).
SiteDropdownChange ==
    /\ Idle
    /\ \E s \in Range(site_options) :
          /\ s # selected_site
          /\ selected_site' = s
    /\ pending' = Dispatched("site-dropdown")
    /\ trigger' = "site-dropdown"
    /\ produced' = NoneProduced
    /\ UNCHANGED <<csv, phase, spacex_df, min_payload, max_payload,
                   site_options, payload_range, pie, scatter>>

\* The user drags the handles of 'payload-slider'.
PayloadSliderChange ==
    /\ Idle
    /\ \E low \in DraggedTicks \cap SliderTicks, high \in DraggedTicks \cap SliderTicks :
          /\ low <= high
          /\ <<low, high>> # payload_range
          /\ payload_range' = <<low, high>>
    /\ pending' = Dispatched("payload-slider")
    /\ trigger' = "payload-slider"
    /\ produced' = NoneProduced
    /\ UNCHANGED <<csv, phase, spacex_df, min_payload, max_payload,
                   site_options, selected_site, pie, scatter>>

\* Dash runs a dispatched update_pie with the dropdown's value and puts the
\* returned figure in 'success-pie-chart'.
RunUpdatePie ==
    /\ phase = "running"
    /\ "update_pie" \in pending
    /\ \E fig \in update_pie(selected_site) : pie' = fig
    /\ pending' = pending \ {"update_pie"}
    /\ produced' = [produced EXCEPT !["update_pie"] = @ + 1]
    /\ UNCHANGED <<csv, phase, spacex_df, min_payload, max_payload,
                   site_options, selected_site, payload_range, scatter, trigger>>

\* Dash runs a dispatched update_scatter with both controls' values and puts
\* the returned figure in 'success-payload-scatter-chart'.
RunUpdateScatter ==
    /\ phase = "running"
    /\ "update_scatter" \in pending
    /\ scatter' = update_scatter(selected_site, payload_range)
    /\ pending' = pending \ {"update_scatter"}
    /\ produced' = [produced EXCEPT !["update_scatter"] = @ + 1]
    /\ UNCHANGED <<csv, phase, spacex_df, min_payload, max_payload,
                   site_options, selected_site, payload_range, pie, trigger>>

Next ==
    \/ LoadDataset
    \/ SiteDropdownChange
    \/ PayloadSliderChange
    \/ RunUpdatePie
    \/ RunUpdateScatter

Spec == Init /\ [][Next]_vars

TypeOK ==
    /\ phase \in {"start", "running", "exited", "crashed"}
    /\ pending \subseteq Callbacks
    /\ trigger \in {"none", "load", "site-dropdown", "payload-slider"}

\* ================================================================ claims
PieDone == phase = "running" /\ "update_pie" \notin pending
ScatterDone == phase = "running" /\ "update_scatter" \notin pending

\* Number of rows of the loaded table at `site` with class `c`.
NumRows(site, c) ==
    Cardinality({i \in DOMAIN spacex_df :
                    spacex_df[i].site = site /\ spacex_df[i].class = c})

TableSites == {spacex_df[i].site : i \in DOMAIN spacex_df}

PieValues == [k \in DOMAIN pie.data |-> pie.data[k].value]

\* C1 (as stated): for a specific site the proportion aggregate has exactly
\* two entries, "Failure" and "Success", valued by the numbers of the site's
\* class-0 and class-1 rows, a count of 0 included.
C1_TwoEntriesAlways ==
    (PieDone /\ selected_site # ALL) =>
        /\ Len(pie.data) = 2
        /\ \E k \in DOMAIN pie.data :
              pie.data[k] = [name |-> "Failure", value |-> NumRows(selected_site, 0)]
        /\ \E k \in DOMAIN pie.data :
              pie.data[k] = [name |-> "Success", value |-> NumRows(selected_site, 1)]

\* C1 (amended): for a specific site the proportion aggregate has one entry
\* per outcome that occurs among the site's rows, labelled "Failure" (class
\* 0) or "Success" (class 1) and valued by the number of such rows; an
\* outcome with no row at the site has no entry.
C1_EntriesForOccurringOutcomes ==
    (PieDone /\ selected_site # ALL) =>
        LET occurring == {c \in Classes : NumRows(selected_site, c) > 0}
            expected == {[name |-> IF c = 0 THEN "Failure" ELSE "Success",
                          value |-> NumRows(selected_site, c)] : c \in occurring}
        IN /\ Range(pie.data) = expected
           /\ Len(pie.data) = Cardinality(occurring)

C1_Witness ==
    /\ PieDone
    /\ selected_site # ALL
    /\ NumRows(selected_site, 0) = 0
    /\ NumRows(selected_site, 1) = 2
    /\ pie.data = <<[name |-> "Success", value |-> 2]>>

\* C2 (as stated): for a specific site the entries are in the fixed order
\* Failure first, Success second.
C2_FailureThenSuccess ==
    (PieDone /\ selected_site # ALL) =>
        /\ Len(pie.data) = 2
        /\ pie.data[1].name = "Failure"
        /\ pie.data[2].name = "Success"

\* C2 (amended): for a specific site the entries are in order of
\* non-increasing count, the more frequent outcome first.
C2_DescendingCount ==
    (PieDone /\ selected_site # ALL) =>
        \A k \in 1..(Len(pie.data) - 1) :
            pie.data[k].value >= pie.data[k + 1].value

C2_Witness ==
    /\ PieDone
    /\ selected_site # ALL
    /\ Len(pie.data) = 2
    /\ pie.data[1].name = "Success"
    /\ pie.data[1].value > pie.data[2].value
    /\ spacex_df[1].class = 0

\* C3: with ALL selected the proportion aggregate has exactly one entry per
\* distinct site of the table, valued by the number of that site's class-1
\* rows (0 included), the entries in ascending order of site label.
C3_AllSitesAggregate ==
    (PieDone /\ selected_site = ALL) =>
        /\ {pie.data[k].name : k \in DOMAIN pie.data} = TableSites
        /\ Len(pie.data) = Cardinality(TableSites)
        /\ \A k \in DOMAIN pie.data :
              pie.data[k].value = NumRows(pie.data[k].name, 1)
        /\ \A k \in 1..(Len(pie.data) - 1) :
              Rank(pie.data[k].name) < Rank(pie.data[k + 1].name)

C3_Witness ==
    /\ PieDone
    /\ selected_site = ALL
    /\ Len(pie.data) = 2
    /\ Rank(spacex_df[1].site) > Rank(spacex_df[2].site)
    /\ \E k \in DOMAIN pie.data : pie.data[k].value = 0

\* C4: the correlation subset holds exactly the rows with
\* low <= payload <= high and, for a specific site, that site; each such
\* row once, in table order.
C4_FilterExact ==
    ScatterDone =>
        LET f == scatter.data
            low == payload_range[1]
            high == payload_range[2]
            Qualifies(r) ==
                /\ low * 10 <= r.payload
                /\ r.payload <= high * 10
                /\ (selected_site = ALL \/ r.site = selected_site)
        IN /\ \A i \in DOMAIN spacex_df :
                 Cardinality({k \in DOMAIN f : f[k] = spacex_df[i]})
                     = IF Qualifies(spacex_df[i]) THEN 1 ELSE 0
           /\ Range(f) \subseteq Range(spacex_df)
           /\ \A k \in 1..(Len(f) - 1) : f[k].index < f[k + 1].index

C4_Witness ==
    /\ ScatterDone
    /\ trigger = "payload-slider"
    /\ selected_site # ALL
    /\ Len(scatter.data) = 1
    /\ Len(spacex_df) = 3
    /\ scatter.data[1].payload = payload_range[2] * 10
    /\ \E i \in DOMAIN spacex_df :
          spacex_df[i].site = selected_site /\ spacex_df[i].payload > payload_range[2] * 10

\* C5 (as stated): payload_range = [0, 10000] with ALL selected returns the
\* entire table.
C5_FullRangeReturnsTable ==
    (ScatterDone /\ selected_site = ALL /\ payload_range = <<0, 10000>>) =>
        scatter.data = spacex_df

\* C5 (amended): payload_range = [0, 10000] with ALL selected returns every
\* row whose payload is at most 10000 kg and no other; it is the entire
\* table exactly when no payload of the table exceeds 10000 kg.
C5_FullRangeKeepsRowsUpToMax ==
    (ScatterDone /\ selected_site = ALL /\ payload_range = <<0, 10000>>) =>
        /\ \A i \in DOMAIN spacex_df :
              (spacex_df[i] \in Range(scatter.data)) <=> (spacex_df[i].payload <= 100000)
        /\ (scatter.data = spacex_df)
              <=> (\A i \in DOMAIN spacex_df : spacex_df[i].payload <= 100000)

C5_Witness ==
    /\ ScatterDone
    /\ selected_site = ALL
    /\ payload_range = <<0, 10000>>
    /\ Len(scatter.data) = 2
    /\ Len(spacex_df) = 3

C7_CountsSum ==
    PieDone =>
        SumSeq(PieValues) =
            IF selected_site = ALL
            THEN Cardinality({i \in DOMAIN spacex_df : spacex_df[i].class = 1})
            ELSE Cardinality({i \in DOMAIN spacex_df :
                                 spacex_df[i].site = selected_site})

C7_Witness ==
    /\ PieDone
    /\ selected_site # ALL
    /\ Len(pie.data) = 2
    /\ SumSeq(PieValues) = 2
    /\ Len(spacex_df) = 3
    /\ \E i \in DOMAIN spacex_df : spacex_df[i].class = 1 /\ spacex_df[i].site # selected_site

\* C8: whenever every dispatched callback has run, the proportion chart is
\* the aggregate for the current selected_site and the correlation chart is
\* the filtered subset for the current selected_site and payload_range.
C8_ChartsCurrentWhenIdle ==
    Idle =>
        /\ pie \in update_pie(selected_site)
        /\ scatter = update_scatter(selected_site, payload_range)

C8_Witness ==
    /\ Idle
    /\ trigger = "site-dropdown"
    /\ selected_site # ALL
    /\ payload_range # <<min_payload, max_payload>>
    /\ Len(scatter.data) = 1
    /\ \E i \in DOMAIN spacex_df :
          /\ spacex_df[i].site # selected_site
          /\ PayloadMask(spacex_df[i], payload_range[1], payload_range[2])

\* C9: with the dataset file missing the load ends the process before any
\* dashboard state exists: no table, no control value, no dispatched
\* callback, no figure; and nothing runs afterwards.
C9_MissingFileIsFatal ==
    ~csv.exists =>
        /\ phase \in {"start", "exited"}
        /\ spacex_df = <<>>
        /\ min_payload = NotSet /\ max_payload = NotSet
        /\ site_options = <<>>
        /\ selected_site = ""
        /\ payload_range = <<>>
        /\ pending = {}
        /\ trigger = "none"
        /\ produced = NoneProduced
        /\ pie = NoFigure /\ scatter = NoFigure
        /\ phase = "exited" => ~ENABLED Next

C9_Witness == ~csv.exists /\ phase = "exited"

\* C10: a control change runs exactly the callbacks bound to the control,
\* once each: a category change yields one proportion and one correlation
\* figure; a range change yields one correlation figure and no proportion
\* figure, and leaves the proportion chart, selected_site and the table as
\* they were.
C10_HandlersPerEvent ==
    /\ [](Idle =>
            /\ trigger = "site-dropdown" =>
                  produced = [update_pie |-> 1, update_scatter |-> 1]
            /\ trigger = "payload-slider" =>
                  produced = [update_pie |-> 0, update_scatter |-> 1])
    /\ [][trigger' = "payload-slider" =>
            /\ pie' = pie
            /\ selected_site' = selected_site
            /\ spacex_df' = spacex_df
            /\ produced'["update_pie"] = 0]_vars
    /\ [][phase = "running" => spacex_df' = spacex_df]_vars

C10_Witness ==
    /\ Idle
    /\ trigger = "payload-slider"
    /\ produced = [update_pie |-> 0, update_scatter |-> 1]
    /\ selected_site # ALL
    /\ Len(pie.data) = 2

====
